---- MODULE Spec2Model ----
(***************************************************************************)
(* CSV Data API (src/main.py): a table loaded once from a CSV file into    *)
(* the module-level df_cache, and the handlers GET /, /data, /columns and  *)
(* /search over it.                                                        *)
(*                                                                         *)
(* Text is a sequence of one-character strings.  A cell is a record        *)
(* [t, s, n]: t = "str" with text s, t = "int" with number n, or t = "nan" *)
(* for a missing cell.  A DataFrame is [isdf, columns, rows], every row a  *)
(* function from the column names to cells; None is the unset df_cache.    *)
(* A handler runs to completion without awaiting, so each handler is one   *)
(* atomic action; resp is the response of the request being answered and   *)
(* Send hands it to the client.                                            *)
(***************************************************************************)
EXTENDS Integers, Sequences, FiniteSets

VARIABLES startup, file, df_cache, resp, io, sweep

vars == <<startup, file, df_cache, resp, io, sweep>>

----------------------------------------------------------------------------
(* Bounds of the model *)

\* largest page number a single request asks for
MaxPage == 3
\* largest small page_size a request asks for (the limit 1000 is always tried)
MaxPageSize == 2
\* longest search value
MaxValLen == 2

\* page_size: Query(..., ge=1, le=1000)
PageSizeLimit == 1000
\* page: Query(..., ge=1)
PageMin == 1

----------------------------------------------------------------------------
(* Values *)

None == [isdf |-> FALSE]

StrCell(s) == [t |-> "str", s |-> s, n |-> 0]
IntCell(n) == [t |-> "int", s |-> <<>>, n |-> n]
NaNCell == [t |-> "nan", s |-> <<>>, n |-> 0]

\* a CSV file with four data rows: an integer column and a text column with
\* one empty cell
TableA ==
  [isdf |-> TRUE,
   columns |-> <<"id", "name">>,
   rows |-> << [id |-> IntCell(7),  name |-> StrCell(<<"D", "d">>)],
               [id |-> IntCell(10), name |-> StrCell(<<"d", ".">>)],
               [id |-> IntCell(12), name |-> NaNCell],
               [id |-> IntCell(21), name |-> StrCell(<<"(", "1">>)] >>]

\* a CSV file that holds a header line only
TableE == [isdf |-> TRUE, columns |-> <<"name", "zip">>, rows |-> <<>>]

\* what config['csv'] may name on disk: nothing, bytes read_csv cannot
\* parse, or a CSV file
Missing == [kind |-> "missing"]
Garbage == [kind |-> "garbage"]
Csv(t) == [kind |-> "csv", table |-> t]
Files == {Missing, Garbage, Csv(TableA), Csv(TableE)}

\* the characters a search value is made of
ValueChars == {"d", "D", ".", "(", "\\"}

RECURSIVE SeqsUpTo(_, _)
SeqsUpTo(S, n) ==
  IF n = 0 THEN {<<>>}
  ELSE LET shorter == SeqsUpTo(S, n - 1)
       IN shorter \cup {Append(s, c) : s \in {x \in shorter : Len(x) = n - 1}, c \in S}

Values == SeqsUpTo(ValueChars, MaxValLen)
ColumnNames == {"id", "name", "zip"}
Pages == PageMin..MaxPage
PageSizes == (1..MaxPageSize) \cup {PageSizeLimit}

Min(a, b) == IF a < b THEN a ELSE b
SeqToSet(s) == {s[i] : i \in 1..Len(s)}

----------------------------------------------------------------------------
(* Text helpers: what str(), lower-casing and re do on the characters used *)

DigitChars == <<"0", "1", "2", "3", "4", "5", "6", "7", "8", "9">>
IsDigit(c) == c \in SeqToSet(DigitChars)

\* case folding of one character (re.IGNORECASE compares folded characters)
Lower(c) == IF c = "D" THEN "d" ELSE c

RECURSIVE IntToStr(_)
IntToStr(n) ==
  IF n < 10 THEN <<DigitChars[n + 1]>>
  ELSE IntToStr(n \div 10) \o <<DigitChars[(n % 10) + 1]>>

\* Series.astype(str) on one cell: str(value); a missing cell is the float
\* nan, whose str() is "nan"
astype_str(cell) ==
  CASE cell.t = "str" -> cell.s
    [] cell.t = "int" -> IntToStr(cell.n)
    [] OTHER -> <<"n", "a", "n">>

----------------------------------------------------------------------------
(* Series.str.contains(value, case=False, na=False): regex=True is the     *)
(* default, so value is compiled with re.compile(value, re.IGNORECASE) and *)
(* a row is kept when pattern.search(text) finds a match.                  *)

Lit(c) == [k |-> "lit", c |-> c]
AnyChar == [k |-> "any", c |-> ""]
DigitClass == [k |-> "digit", c |-> ""]
NonDigitClass == [k |-> "nondigit", c |-> ""]

\* re.compile on a pattern over ValueChars: the item sequence, or re.error
RECURSIVE re_compile(_)
re_compile(pat) ==
  IF pat = <<>> THEN [ok |-> TRUE, items |-> <<>>]
  ELSE
    LET c == Head(pat)
        escaped == c = "\\" /\ Len(pat) >= 2
        used == IF escaped THEN 2 ELSE 1
        rest == re_compile(SubSeq(pat, used + 1, Len(pat)))
        item ==
          CASE c = "(" -> [ok |-> FALSE]                  \* missing ), unterminated subpattern
            [] c = "\\" /\ ~escaped -> [ok |-> FALSE]     \* bad escape (end of pattern)
            [] escaped /\ pat[2] = "d" -> [ok |-> TRUE, it |-> DigitClass]
            [] escaped /\ pat[2] = "D" -> [ok |-> TRUE, it |-> NonDigitClass]
            [] escaped -> [ok |-> TRUE, it |-> Lit(pat[2])]
            [] c = "." -> [ok |-> TRUE, it |-> AnyChar]
            [] OTHER -> [ok |-> TRUE, it |-> Lit(c)]
    IN IF item.ok /\ rest.ok
       THEN [ok |-> TRUE, items |-> <<item.it>> \o rest.items]
       ELSE [ok |-> FALSE, items |-> <<>>]

\* one pattern item against one character, under re.IGNORECASE
ItemMatches(item, x) ==
  CASE item.k = "lit" -> Lower(x) = Lower(item.c)
    [] item.k = "any" -> x # "\n"
    [] item.k = "digit" -> IsDigit(x)
    [] OTHER -> ~IsDigit(x)

\* pattern.search(text) is not None
re_search(items, text) ==
  \E i \in 0..(Len(text) - Len(items)) :
    \A j \in 1..Len(items) : ItemMatches(items[j], text[i + j])

\* df[column].astype(str).str.contains(value, case=False, na=False): the
\* boolean mask over the rows, or the re.error raised
str_contains(df, column, value) ==
  LET pat == re_compile(value)
  IN IF ~pat.ok THEN [ok |-> FALSE, mask |-> <<>>]
     ELSE [ok |-> TRUE,
           mask |-> [i \in 1..Len(df.rows) |->
                       re_search(pat.items, astype_str(df.rows[i][column]))]]

\* df[mask]: the rows whose mask entry is True, in order
RECURSIVE boolean_index(_, _)
boolean_index(rows, mask) ==
  IF rows = <<>> THEN <<>>
  ELSE (IF Head(mask) THEN <<Head(rows)>> ELSE <<>>)
         \o boolean_index(Tail(rows), Tail(mask))

\* iloc as it would be had the slice been written rows.iloc[start:]
iloc_to_end(rows, start, stop) ==
  SubSeq(rows, Min(start, Len(rows)) + 1, Len(rows))

\* rows.iloc[start:stop] with 0 <= start, 0 <= stop: both ends clamped to
\* the length, empty when stop <= start
iloc(rows, start, stop) ==
  SubSeq(rows, Min(start, Len(rows)) + 1, Min(stop, Len(rows)))

----------------------------------------------------------------------------
(* load_csv_data and the handlers' try bodies.  A try body ends in         *)
(* [raised |-> "", body] or in [raised |-> exception class, ...].          *)

Returned(body) == [raised |-> "", body |-> body]
Raised(cls, status, detail) == [raised |-> cls, status |-> status, detail |-> detail]

\* load_csv_data without the "if df_cache is None" guard: every call goes
\* to the disk
load_csv_data_reread(cache, disk) ==
  IF disk.kind = "missing"
    THEN [raised |-> "FileNotFoundError", df |-> None, cache |-> cache, io |-> "exists"]
  ELSE IF disk.kind = "garbage"
    THEN [raised |-> "ParserError", df |-> None, cache |-> cache, io |-> "read"]
  ELSE [raised |-> "", df |-> disk.table, cache |-> disk.table, io |-> "read"]

\* load_csv_data(): [df, cache, io, raised]
load_csv_data(cache, disk) ==
  IF cache # None
    THEN [raised |-> "", df |-> cache, cache |-> cache, io |-> "none"]
  ELSE IF disk.kind = "missing"
    THEN [raised |-> "FileNotFoundError", df |-> None, cache |-> None, io |-> "exists"]
  ELSE IF disk.kind = "garbage"
    THEN [raised |-> "ParserError", df |-> None, cache |-> None, io |-> "read"]
  ELSE [raised |-> "", df |-> disk.table, cache |-> disk.table, io |-> "read"]

LoadFailure(ld) ==
  Raised(ld.raised, 0,
         [msg |-> IF ld.raised = "FileNotFoundError" THEN "CSV file not found" ELSE "parse error"])

\* data_page with total_pages rounded down
data_page_floor(df, page, page_size) ==
  LET total_records == Len(df.rows)
      total_pages == total_records \div page_size
      start_idx == (page - 1) * page_size
      end_idx == Min(start_idx + page_size, total_records)
      data == iloc(df.rows, start_idx, end_idx)
  IN IF page > total_pages /\ total_records > 0
     THEN Raised("HTTPException", 404,
                 [msg |-> "Page not found", page |-> page, total_pages |-> total_pages])
     ELSE Returned([success |-> TRUE, page |-> page, page_size |-> page_size,
                    total_records |-> total_records, total_pages |-> total_pages,
                    showing_records |-> Len(data), data |-> data])

\* data_page without "and total_records > 0" in the range test
data_page_strict(df, page, page_size) ==
  LET total_records == Len(df.rows)
      total_pages == (total_records + page_size - 1) \div page_size
      start_idx == (page - 1) * page_size
      end_idx == Min(start_idx + page_size, total_records)
      data == iloc(df.rows, start_idx, end_idx)
  IN IF page > total_pages
     THEN Raised("HTTPException", 404,
                 [msg |-> "Page not found", page |-> page, total_pages |-> total_pages])
     ELSE Returned([success |-> TRUE, page |-> page, page_size |-> page_size,
                    total_records |-> total_records, total_pages |-> total_pages,
                    showing_records |-> Len(data), data |-> data])

\* the pagination of get_data, after the load
data_page(df, page, page_size) ==
  LET total_records == Len(df.rows)
      total_pages == (total_records + page_size - 1) \div page_size
      start_idx == (page - 1) * page_size
      end_idx == Min(start_idx + page_size, total_records)
      data == iloc(df.rows, start_idx, end_idx)
  IN IF page > total_pages /\ total_records > 0
     THEN Raised("HTTPException", 404,
                 [msg |-> "Page not found", page |-> page, total_pages |-> total_pages])
     ELSE Returned([success |-> TRUE, page |-> page, page_size |-> page_size,
                    total_records |-> total_records, total_pages |-> total_pages,
                    showing_records |-> Len(data), data |-> data])

\* get_data's except clauses without the FileNotFoundError clause
get_data_except_generic(r) ==
  IF r.raised = "" THEN [status |-> 200, body |-> r.body]
  ELSE [status |-> 500,
        body |-> [detail |-> [msg |-> "Error reading data", cause |-> r]]]

\* the except clauses of get_data: FileNotFoundError first, then Exception,
\* which HTTPException is a subclass of
get_data_except(r) ==
  IF r.raised = "" THEN [status |-> 200, body |-> r.body]
  ELSE IF r.raised = "FileNotFoundError" THEN [status |-> 404, body |-> [detail |-> r.detail]]
  ELSE [status |-> 500,
        body |-> [detail |-> [msg |-> "Error reading data", cause |-> r]]]

\* the try body of get_columns, after the load
columns_body(df) ==
  Returned([success |-> TRUE, columns |-> df.columns, total_columns |-> Len(df.columns)])

\* the except clause of get_columns
get_columns_except(r) ==
  IF r.raised = "" THEN [status |-> 200, body |-> r.body]
  ELSE [status |-> 500,
        body |-> [detail |-> [msg |-> "Error reading columns", cause |-> r]]]

\* search_page with get_data's range test added, the HTTPException re-raised
search_page_range_checked(df, column, value, page, page_size) ==
  LET sel == str_contains(df, column, value)
      filtered == boolean_index(df.rows, sel.mask)
      total_records == Len(filtered)
      total_pages == IF total_records > 0
                     THEN (total_records + page_size - 1) \div page_size
                     ELSE 0
      start_idx == (page - 1) * page_size
      end_idx == Min(start_idx + page_size, total_records)
      data == iloc(filtered, start_idx, end_idx)
  IN IF ~sel.ok THEN Raised("re.error", 0, [msg |-> "pattern error"])
     ELSE IF page > total_pages /\ total_records > 0
     THEN Raised("HTTPException", 404,
                 [msg |-> "Page not found", page |-> page, total_pages |-> total_pages])
     ELSE Returned([success |-> TRUE, page |-> page, page_size |-> page_size,
                    total_records |-> total_records, total_pages |-> total_pages,
                    showing_records |-> Len(data),
                    search_column |-> column, search_value |-> value,
                    data |-> data])

\* the filter and pagination of search_data, once the column is known to exist
search_page(df, column, value, page, page_size) ==
  LET sel == str_contains(df, column, value)
      filtered == boolean_index(df.rows, sel.mask)
      total_records == Len(filtered)
      total_pages == IF total_records > 0
                     THEN (total_records + page_size - 1) \div page_size
                     ELSE 0
      start_idx == (page - 1) * page_size
      end_idx == Min(start_idx + page_size, total_records)
      data == iloc(filtered, start_idx, end_idx)
  IN IF ~sel.ok THEN Raised("re.error", 0, [msg |-> "pattern error"])
     ELSE Returned([success |-> TRUE, page |-> page, page_size |-> page_size,
                    total_records |-> total_records, total_pages |-> total_pages,
                    showing_records |-> Len(data),
                    search_column |-> column, search_value |-> value,
                    data |-> data])

\* the try body of search_data, after the load
search_body(df, column, value, page, page_size) ==
  IF column \notin SeqToSet(df.columns)
  THEN Raised("HTTPException", 400,
              [msg |-> "Column not found", column |-> column, columns |-> df.columns])
  ELSE search_page(df, column, value, page, page_size)

\* search_data's except clauses without "except HTTPException: raise"
search_data_except_all(r) ==
  IF r.raised = "" THEN [status |-> 200, body |-> r.body]
  ELSE [status |-> 500,
        body |-> [detail |-> [msg |-> "Error searching data", cause |-> r]]]

\* the except clauses of search_data: HTTPException is re-raised, any other
\* exception becomes a 500
search_data_except(r) ==
  IF r.raised = "" THEN [status |-> 200, body |-> r.body]
  ELSE IF r.raised = "HTTPException" THEN [status |-> r.status, body |-> [detail |-> r.detail]]
  ELSE [status |-> 500,
        body |-> [detail |-> [msg |-> "Error searching data", cause |-> r]]]

\* get_data(page, page_size): the response and what the load did
get_data(cache, disk, page, page_size) ==
  LET ld == load_csv_data(cache, disk)
      r == IF ld.raised # "" THEN LoadFailure(ld) ELSE data_page(ld.df, page, page_size)
  IN [out |-> get_data_except(r), cache |-> ld.cache, io |-> ld.io]

\* get_columns()
get_columns(cache, disk) ==
  LET ld == load_csv_data(cache, disk)
      r == IF ld.raised # "" THEN LoadFailure(ld) ELSE columns_body(ld.df)
  IN [out |-> get_columns_except(r), cache |-> ld.cache, io |-> ld.io]

\* search_data(column, value, page, page_size)
search_data(cache, disk, column, value, page, page_size) ==
  LET ld == load_csv_data(cache, disk)
      r == IF ld.raised # "" THEN LoadFailure(ld)
           ELSE search_body(ld.df, column, value, page, page_size)
  IN [out |-> search_data_except(r), cache |-> ld.cache, io |-> ld.io]

----------------------------------------------------------------------------
(* The process *)

NoResp == [op |-> "none"]
NoSweep == [on |-> FALSE]

Response(op, req, out) ==
  [op |-> op, req |-> req, status |-> out.status, body |-> out.body]

DataReq(page, page_size) == [page |-> page, page_size |-> page_size]
SearchReq(column, value, page, page_size) ==
  [column |-> column, value |-> value, page |-> page, page_size |-> page_size]

\* df_cache = None at import; the file named by the configuration is in any state
Init ==
  /\ startup = "pending"
  /\ file \in Files
  /\ df_cache = None
  /\ resp = NoResp
  /\ io = "none"
  /\ sweep = NoSweep

\* the environment replaces, corrupts or removes the file at any time
ChangeFile(f) ==
  /\ f # file
  /\ file' = f
  /\ io' = "none"
  /\ UNCHANGED <<startup, df_cache, resp, sweep>>

\* startup_event: the load is tried and any exception is printed, not raised
startup_event ==
  /\ startup = "pending"
  /\ LET ld == load_csv_data(df_cache, file)
     IN /\ startup' = IF ld.raised = "" THEN "ok" ELSE "failed"
        /\ df_cache' = ld.cache
        /\ io' = ld.io
  /\ UNCHANGED <<file, resp, sweep>>

Serving == startup # "pending" /\ resp = NoResp
Single == Serving /\ ~sweep.on

\* GET /
root ==
  /\ Single
  /\ resp' = Response("root", [path |-> "/"],
                      [status |-> 200, body |-> [message |-> "CSV Data API"]])
  /\ io' = "none"
  /\ UNCHANGED <<startup, file, df_cache, sweep>>

\* GET /data?page&page_size
GetData(page, page_size) ==
  /\ Single
  /\ LET h == get_data(df_cache, file, page, page_size)
     IN /\ resp' = Response("data", DataReq(page, page_size), h.out)
        /\ df_cache' = h.cache
        /\ io' = h.io
  /\ UNCHANGED <<startup, file, sweep>>

\* GET /columns
GetColumns ==
  /\ Single
  /\ LET h == get_columns(df_cache, file)
     IN /\ resp' = Response("columns", [path |-> "/columns"], h.out)
        /\ df_cache' = h.cache
        /\ io' = h.io
  /\ UNCHANGED <<startup, file, sweep>>

\* GET /search?column&value&page&page_size
SearchData(column, value, page, page_size) ==
  /\ Single
  /\ LET h == search_data(df_cache, file, column, value, page, page_size)
     IN /\ resp' = Response("search", SearchReq(column, value, page, page_size), h.out)
        /\ df_cache' = h.cache
        /\ io' = h.io
  /\ UNCHANGED <<startup, file, sweep>>

\* the response leaves the process
Send ==
  /\ resp # NoResp
  /\ resp' = NoResp
  /\ io' = "none"
  /\ UNCHANGED <<startup, file, df_cache, sweep>>

\* a client sets out to read one query page by page, from page 1 on
SweepStart(op, column, value, page_size) ==
  /\ Single
  /\ sweep' = [on |-> TRUE, op |-> op, column |-> column, value |-> value,
               page_size |-> page_size, page |-> 0, acc |-> <<>>, state |-> "walking"]
  /\ io' = "none"
  /\ UNCHANGED <<startup, file, df_cache, resp>>

\* the client's next request: the page after the last one it got
SweepNext ==
  /\ Serving
  /\ sweep.on
  /\ sweep.state = "walking"
  /\ LET page == sweep.page + 1
         h == IF sweep.op = "data"
              THEN get_data(df_cache, file, page, sweep.page_size)
              ELSE search_data(df_cache, file, sweep.column, sweep.value, page,
                               sweep.page_size)
         req == IF sweep.op = "data"
                THEN DataReq(page, sweep.page_size)
                ELSE SearchReq(sweep.column, sweep.value, page, sweep.page_size)
     IN /\ resp' = Response(sweep.op, req, h.out)
        /\ df_cache' = h.cache
        /\ io' = h.io
        /\ sweep' = IF h.out.status = 200
                    THEN [sweep EXCEPT !.page = page,
                                       !.acc = @ \o h.out.body.data,
                                       !.state = IF page >= h.out.body.total_pages
                                                 THEN "done" ELSE "walking"]
                    ELSE [sweep EXCEPT !.state = "failed"]
  /\ UNCHANGED <<startup, file>>

\* the client is through, or gave up on an error
SweepEnd ==
  /\ Serving
  /\ sweep.on
  /\ sweep.state # "walking"
  /\ sweep' = NoSweep
  /\ io' = "none"
  /\ UNCHANGED <<startup, file, df_cache, resp>>

Next ==
  \/ \E f \in Files : ChangeFile(f)
  \/ startup_event
  \/ root
  \/ Single /\ \E page \in Pages, page_size \in PageSizes : GetData(page, page_size)
  \/ GetColumns
  \/ Single /\ \E column \in ColumnNames, value \in Values,
                  page \in Pages, page_size \in PageSizes :
                 SearchData(column, value, page, page_size)
  \/ Send
  \/ Single /\ \E page_size \in PageSizes : SweepStart("data", "", <<>>, page_size)
  \/ Single /\ \E column \in ColumnNames, value \in Values, page_size \in PageSizes :
                 SweepStart("search", column, value, page_size)
  \/ SweepNext
  \/ SweepEnd

Spec == Init /\ [][Next]_vars

----------------------------------------------------------------------------
(* What the properties speak of *)

Handlers == {"data", "columns", "search"}

\* ceil(n / d), written without the handlers' (n + d - 1) // d
CeilDiv(n, d) == IF n % d = 0 THEN n \div d ELSE (n \div d) + 1

\* value occurs in text as a literal substring, letter case ignored
LiteralContains(text, value) ==
  \E i \in 0..(Len(text) - Len(value)) :
    \A j \in 1..Len(value) : Lower(text[i + j]) = Lower(value[j])

\* the rows of df whose cell text in column contains value literally
RECURSIVE LiteralRows(_, _, _)
LiteralRows(rows, column, value) ==
  IF rows = <<>> THEN <<>>
  ELSE (IF LiteralContains(astype_str(Head(rows)[column]), value)
        THEN <<Head(rows)>> ELSE <<>>)
         \o LiteralRows(Tail(rows), column, value)

\* v1 and v2 differ in letter case only
SameUpToCase(v1, v2) ==
  /\ Len(v1) = Len(v2)
  /\ \A i \in 1..Len(v1) : Lower(v1[i]) = Lower(v2[i])

\* rows[(page-1)*page_size .. min((page-1)*page_size + page_size, N)), 0-based
PageOf(rows, page, page_size) ==
  LET first == (page - 1) * page_size
      count == Min(page_size, Len(rows) - first)
  IN IF count <= 0 THEN <<>> ELSE [i \in 1..count |-> rows[first + i]]

\* resp answers a /data request on a loaded table
DataAnswered == resp.op = "data" /\ df_cache.isdf

\* resp answers a /search request on a loaded table that has the column
SearchAnswered ==
  /\ resp.op = "search"
  /\ df_cache.isdf
  /\ resp.req.column \in SeqToSet(df_cache.columns)

\* resp answers a /search request whose filter step completed
SearchFiltered ==
  /\ SearchAnswered
  /\ str_contains(df_cache, resp.req.column, resp.req.value).ok

\* the rows the filter step of the answered /search request selected
FilteredRows ==
  boolean_index(df_cache.rows,
                str_contains(df_cache, resp.req.column, resp.req.value).mask)

\* resp answers a request that paginates a row sequence
Paginated == DataAnswered \/ SearchFiltered

\* the row sequence the answered request paginates
PagedRows == IF resp.op = "data" THEN df_cache.rows ELSE FilteredRows

----------------------------------------------------------------------------
(* C1: GET /data with a page beyond total_pages on a loaded, non-empty     *)
(* table ends in a 404 response that reports the requested page and the    *)
(* total page count.                                                       *)
C1_DataPageOutOfRangeIs404 ==
  (/\ DataAnswered
   /\ Len(df_cache.rows) > 0
   /\ resp.req.page > CeilDiv(Len(df_cache.rows), resp.req.page_size))
  => /\ resp.status = 404
     /\ resp.body.detail.page = resp.req.page
     /\ resp.body.detail.total_pages = CeilDiv(Len(df_cache.rows), resp.req.page_size)

(* C2 as stated: GET /search with an existing column, a filtered result    *)
(* of at least one row and a page beyond the result's total_pages ends in  *)
(* a 404 response.                                                         *)
C2_SearchPageOutOfRangeIs404 ==
  (/\ SearchFiltered
   /\ Len(FilteredRows) > 0
   /\ resp.req.page > CeilDiv(Len(FilteredRows), resp.req.page_size))
  => resp.status = 404

(* C2 amended: GET /search has no page-out-of-range rule; with an existing *)
(* column, a filtered result of N >= 1 rows and a page beyond total_pages  *)
(* it ends in a success response with an empty data list, total_records =  *)
(* N and total_pages = ceil(N / page_size).                                *)
C2_SearchPageOutOfRangeIsEmptySuccess ==
  (/\ SearchFiltered
   /\ Len(FilteredRows) > 0
   /\ resp.req.page > CeilDiv(Len(FilteredRows), resp.req.page_size))
  => /\ resp.status = 200
     /\ resp.body.success
     /\ resp.body.data = <<>>
     /\ resp.body.showing_records = 0
     /\ resp.body.total_records = Len(FilteredRows)
     /\ resp.body.total_pages = CeilDiv(Len(FilteredRows), resp.req.page_size)

C2_Witness ==
  /\ SearchFiltered
  /\ Len(FilteredRows) = 3
  /\ resp.req.page_size = 2
  /\ resp.req.page = 3
  /\ resp.status = 200

(* C3: for a row sequence of length N and a page within 1..total_pages,    *)
(* the success response of /data and of /search has total_records = N,     *)
(* total_pages = ceil(N / page_size), showing_records = min(page_size,     *)
(* N - (page-1)*page_size) and data = the rows of that index range in      *)
(* original order.                                                         *)
C3_PageContent ==
  (/\ Paginated
   /\ resp.req.page <= CeilDiv(Len(PagedRows), resp.req.page_size))
  => /\ resp.status = 200
     /\ resp.body.success
     /\ resp.body.page = resp.req.page
     /\ resp.body.page_size = resp.req.page_size
     /\ resp.body.total_records = Len(PagedRows)
     /\ resp.body.total_pages = CeilDiv(Len(PagedRows), resp.req.page_size)
     /\ resp.body.showing_records =
          Min(resp.req.page_size,
              Len(PagedRows) - (resp.req.page - 1) * resp.req.page_size)
     /\ resp.body.data = PageOf(PagedRows, resp.req.page, resp.req.page_size)

C3_Witness ==
  /\ SearchFiltered
  /\ Len(FilteredRows) = 3
  /\ resp.req.page_size = 2
  /\ resp.req.page = 2
  /\ resp.status = 200
  /\ resp.body.showing_records = 1
  /\ resp.body.data = <<df_cache.rows[4]>>

(* C4: pagination over an empty row sequence (an empty table for /data, no *)
(* match for /search) succeeds for every page with total_records = 0,      *)
(* total_pages = 0, showing_records = 0 and data = [].                     *)
C4_EmptyAlwaysSucceeds ==
  (Paginated /\ Len(PagedRows) = 0)
  => /\ resp.status = 200
     /\ resp.body.success
     /\ resp.body.total_records = 0
     /\ resp.body.total_pages = 0
     /\ resp.body.showing_records = 0
     /\ resp.body.data = <<>>

C4_Witness ==
  /\ DataAnswered
  /\ df_cache.rows = <<>>
  /\ resp.req.page = MaxPage
  /\ resp.status = 200
  /\ resp.body.total_pages = 0

(* C5: for an existing column and any search value, /search succeeds and   *)
(* pages exactly the table rows whose cell text contains the value as a    *)
(* literal, case-insensitive substring, in table order.                    *)
C5_LiteralSubstringFilter ==
  SearchAnswered
  => LET rows == LiteralRows(df_cache.rows, resp.req.column, resp.req.value)
     IN /\ resp.status = 200
        /\ resp.body.total_records = Len(rows)
        /\ resp.body.data = PageOf(rows, resp.req.page, resp.req.page_size)

(* C6: two search values that differ in letter case only give the same     *)
(* outcome and, on success, the same total_records and data rows.          *)
C6_ValueCaseInsensitive ==
  SearchAnswered
  => \A v2 \in Values :
       SameUpToCase(resp.req.value, v2)
       => LET other == search_data(df_cache, file, resp.req.column, v2,
                                   resp.req.page, resp.req.page_size).out
          IN /\ other.status = resp.status
             /\ resp.status = 200
                => /\ other.body.total_records = resp.body.total_records
                   /\ other.body.data = resp.body.data

(* C7: GET /search with a column the loaded table does not have ends in a  *)
(* 400 response whose detail lists all the table's column names, for every *)
(* value, page and page_size; it carries no data rows.                     *)
C7_UnknownColumnIs400 ==
  (/\ resp.op = "search"
   /\ df_cache.isdf
   /\ resp.req.column \notin SeqToSet(df_cache.columns))
  => /\ resp.status = 400
     /\ resp.body.detail.column = resp.req.column
     /\ resp.body.detail.columns = df_cache.columns
     /\ DOMAIN resp.body = {"detail"}

C7_Witness ==
  /\ resp.op = "search"
  /\ df_cache = TableA
  /\ resp.req.column = "zip"
  /\ resp.req.value = <<"(">>
  /\ resp.status = 400

(* C8: once a table is loaded, no step changes the cached table or goes to *)
(* the disk again, whatever happens to the file.                           *)
C8_LoadedOnceThenFrozen ==
  [][df_cache.isdf => (df_cache' = df_cache /\ io' = "none")]_vars

C8_Witness ==
  /\ DataAnswered
  /\ df_cache = TableA
  /\ file = Missing
  /\ io = "none"
  /\ resp.status = 200
  /\ resp.body.data = PageOf(TableA.rows, resp.req.page, resp.req.page_size)

(* C9 as stated: a load failure at startup is fatal; no /data, /columns or *)
(* /search request is handled while no table is loaded, and after a failed *)
(* startup load no later step tries the load again.                        *)
C9_StartupFailureIsFatal ==
  [][/\ ~df_cache.isdf => ~(resp = NoResp /\ resp'.op \in Handlers)
     /\ startup = "failed" => io' = "none"]_vars

(* C9 amended: a load failure at startup is not fatal.  Every /data,       *)
(* /columns or /search request handled while no table is loaded tries the  *)
(* load again: with the file missing /data ends in 404 and the other two   *)
(* in 500, with the file unparseable all three end in 500, and in both     *)
(* cases the table stays unloaded; with a readable file the table is       *)
(* loaded and cached by that request.                                      *)
C9_LoadRetriedByRequests ==
  [][(/\ startup = "failed"
      /\ ~df_cache.isdf
      /\ resp = NoResp
      /\ resp'.op \in Handlers)
     => /\ io' # "none"
        /\ file.kind = "missing"
           => /\ ~df_cache'.isdf
              /\ resp'.status = IF resp'.op = "data" THEN 404 ELSE 500
        /\ file.kind = "garbage"
           => /\ ~df_cache'.isdf
              /\ resp'.status = 500
        /\ file.kind = "csv" => df_cache' = file.table]_vars

C9_Witness ==
  /\ startup = "failed"
  /\ ~df_cache.isdf
  /\ resp.op = "data"
  /\ resp.status = 404

(* C10: for a non-empty row sequence, the data lists of pages 1 ..         *)
(* total_pages, concatenated in page order, are the row sequence itself.   *)
C10_PagesPartitionRows ==
  (sweep.on /\ sweep.state = "done" /\ df_cache.isdf)
  => LET rows == IF sweep.op = "data" THEN df_cache.rows
                 ELSE boolean_index(df_cache.rows,
                        str_contains(df_cache, sweep.column, sweep.value).mask)
     IN Len(rows) > 0
        => /\ sweep.page = CeilDiv(Len(rows), sweep.page_size)
           /\ sweep.acc = rows

C10_Witness ==
  /\ sweep.on
  /\ sweep.state = "done"
  /\ sweep.op = "search"
  /\ sweep.page_size = 2
  /\ sweep.page = 2
  /\ Len(sweep.acc) = 3

====
